---- MODULE Spec2Model ----
(***************************************************************************)
(* CrisisNet: the mesh topology manager (MeshNetwork, mesh core) and the   *)
(* route planner (DijkstraRouter, AntColonyRouter, Router).                *)
(*                                                                         *)
(* Node ids are the strings CryptoUtils.generateId() draws; the model      *)
(* numbers them 1, 2, ... in the order of creation (a fresh id per         *)
(* createNode).  name and ipAddress are display-only and are left out.     *)
(* lastSeen holds the reading of the clock (new Date()) in clock ticks.    *)
(***************************************************************************)
EXTENDS Integers, Sequences, FiniteSets, TLC

\* ------------------------------------------------------------------ bounds
\* ids ever handed out by createNode
MaxNodes == 3
\* cap on the length of one node's connections array (heal can grow it for ever)
MaxConnLen == 3
\* cap on the length of the edge list
MaxEdges == 3
\* the clock stops at this reading
MaxClock == 2
\* ids handed out while the clock runs (SpecClock)
MaxClockNodes == 2
\* ids handed out in a crowd, where a node has more than MAX_CONNECTIONS others in range (SpecCrowd)
MaxCrowd == 10
\* nodes of a crowd placed at the far point <<600, 0>>
MaxFar == 1
\* nodes the simulator holds
MaxSimNodes == 4
\* Blockchain.addMessage calls started
MaxCalls == 3

\* ------------------------------------------------------- program constants
MAX_CONNECTIONS == 8
MIN_CONNECTIONS == 2
MAX_RANGE == 500

\* positions createNode is called with: every pairwise distance is an integer
\* (0 for two nodes on one spot, 500 = MAX_RANGE still in range, 600 out of range)
Points == { <<0, 0>>, <<300, 400>>, <<600, 0>> }

Ids == 1..MaxNodes
\* statuses updateNodeStatus is called with; 'busy' and 'relay' are reserved and
\* are treated by every comparison of this class as 'offline' is (not 'online')
Status == {"online", "offline"}
\* Node['status'], all four
AnyStatus == {"online", "offline", "busy", "relay"}

VARIABLES
  nodes,        \* MeshNetwork.nodes: id -> Node, for the ids in the map
  nodeOrder,    \* insertion order of the Map (what forEach / values() follow)
  connections,  \* MeshNetwork.connections: the edge list
  nextId,       \* the next fresh id
  lastOp,       \* the last public call and its argument
  now,          \* what new Date() reads
  topology,     \* the Node[] the caller hands to the router
  call,         \* the routing call in progress or last returned
  pc,           \* "idle", or "aco" inside AntColonyRouter.findOptimalPath's loop
  iter,         \* findOptimalPath: iter
  bestRoute,    \* findOptimalPath: bestRoute
  bestCost,     \* findOptimalPath: bestCost
  allRoutes,    \* findAllRoutes: routes
  pheromones,   \* AntColonyRouter.pheromones (kept by the router between calls)
  found,        \* the routes the ants of the call have returned so far
  result,       \* what the last routing call returned
  simNodes,     \* NetworkSimulator.nodes
  chain,        \* Blockchain.chain
  calls,        \* the Blockchain.addMessage calls: where each stands, and its locals
  loop          \* the while / forEach loop being stepped through, and its locals

meshVars == <<nodes, nodeOrder, connections, nextId, lastOp, now>>
routeVars == <<topology, call, pc, iter, bestRoute, bestCost, allRoutes, pheromones, found,
              result>>
vars == <<nodes, nodeOrder, connections, nextId, lastOp, now,
          topology, call, pc, iter, bestRoute, bestCost, allRoutes, pheromones, found,
          result, simNodes, chain, calls, loop>>
appVars == <<simNodes, chain, calls, loop>>

\* ----------------------------------------------------------------- helpers
Min(a, b) == IF a < b THEN a ELSE b
Max(a, b) == IF a > b THEN a ELSE b
Range(s) == { s[i] : i \in 1..Len(s) }

RECURSIVE SqrtSearch(_, _, _)
SqrtSearch(n, lo, hi) ==
  IF lo >= hi THEN lo
  ELSE LET mid == (lo + hi + 1) \div 2
       IN IF mid * mid <= n THEN SqrtSearch(n, mid, hi)
                            ELSE SqrtSearch(n, lo, mid - 1)

\* Math.sqrt on the squares the model's positions give (all perfect squares)
Sqrt(n) == SqrtSearch(n, 0, Min(n, 46340))

\* the network as one value, so that the methods compose as in the class
Net == [nodes |-> nodes, order |-> nodeOrder, connections |-> connections]

\* ------------------------------------------------------------- MeshNetwork
calculateDistance(nodeA, nodeB) ==
  Sqrt((nodeB.x - nodeA.x) * (nodeB.x - nodeA.x)
       + (nodeB.y - nodeA.y) * (nodeB.y - nodeA.y))

\* Array.prototype.sort is stable: insert after every element that is not farther
RECURSIVE InsertByDistance(_, _, _, _)
InsertByDistance(net, id, sorted, e) ==
  IF sorted = <<>> THEN <<e>>
  ELSE IF calculateDistance(net.nodes[id], net.nodes[Head(sorted)])
            <= calculateDistance(net.nodes[id], net.nodes[e])
       THEN <<Head(sorted)>> \o InsertByDistance(net, id, Tail(sorted), e)
       ELSE <<e>> \o sorted

RECURSIVE SortByDistance(_, _, _)
SortByDistance(net, id, s) ==
  IF s = <<>> THEN <<>>
  ELSE InsertByDistance(net, id, SortByDistance(net, id, SubSeq(s, 1, Len(s) - 1)), s[Len(s)])

\* ids of the nodes within range, nearest first
findNearbyNodes(net, id, range) ==
  LET others == SelectSeq(net.order, LAMBDA n : n # id)
      inRange == SelectSeq(others,
                   LAMBDA n : calculateDistance(net.nodes[id], net.nodes[n]) <= range)
  IN SortByDistance(net, id, inRange)

\* establishConnection with the second push forgotten
establishConnectionOneSided(net, a, b) ==
  LET distance == calculateDistance(net.nodes[a], net.nodes[b])
      connection == [nodeA |-> a, nodeB |-> b,
                     strength |-> Max(0, 100 - ((distance * 50) \div MAX_RANGE)),
                     latency |-> 10 + (distance \div 10),
                     active |-> TRUE]
  IN [net EXCEPT !.nodes[a].connections = Append(@, b),
                 !.connections = Append(@, connection)]

establishConnection(net, a, b) ==
  LET distance == calculateDistance(net.nodes[a], net.nodes[b])
      connection == [nodeA |-> a, nodeB |-> b,
                     strength |-> Max(0, 100 - ((distance * 50) \div MAX_RANGE)),
                     latency |-> 10 + (distance \div 10),
                     active |-> TRUE]
      n1 == [net.nodes EXCEPT ![a].connections = Append(@, b)]
      n2 == [n1 EXCEPT ![b].connections = Append(@, a)]
  IN [net EXCEPT !.nodes = n2, !.connections = Append(@, connection)]

RECURSIVE ConnectEach(_, _, _)
ConnectEach(net, id, nearby) ==
  IF nearby = <<>> THEN net
  ELSE LET nb == Head(nearby)
           net1 == IF nb \notin Range(net.nodes[id].connections)
                   THEN establishConnection(net, id, nb)
                   ELSE net
       IN ConnectEach(net1, id, Tail(nearby))

\* discoverConnections without its slice(0, MAX_CONNECTIONS)
discoverConnectionsNoSlice(net, id) ==
  ConnectEach(net, id, findNearbyNodes(net, id, MAX_RANGE))

discoverConnections(net, id) ==
  LET nearbyNodes == findNearbyNodes(net, id, MAX_RANGE)
  IN ConnectEach(net, id, SubSeq(nearbyNodes, 1, Min(Len(nearbyNodes), MAX_CONNECTIONS)))

NewNode(x, y) ==
  [x |-> x, y |-> y, status |-> "online", battery |-> 100, signalStrength |-> 100,
   connections |-> <<>>, lastSeen |-> now, messageCount |-> 0]

createNode(net, id, x, y) ==
  LET added == [n \in DOMAIN net.nodes \cup {id} |->
                  IF n = id THEN NewNode(x, y) ELSE net.nodes[n]]
  IN discoverConnections([net EXCEPT !.nodes = added, !.order = Append(@, id)], id)

\* node.connections.forEach: scrub nodeId from every neighbour that still exists
RECURSIVE ScrubNeighbours(_, _, _)
ScrubNeighbours(ns, conns, nodeId) ==
  IF conns = <<>> THEN ns
  ELSE LET connId == Head(conns)
           ns1 == IF connId \in DOMAIN ns
                  THEN [ns EXCEPT ![connId].connections =
                          SelectSeq(@, LAMBDA i : i # nodeId)]
                  ELSE ns
       IN ScrubNeighbours(ns1, Tail(conns), nodeId)

removeNode(net, nodeId) ==
  IF nodeId \notin DOMAIN net.nodes THEN net
  ELSE LET scrubbed == ScrubNeighbours(net.nodes, net.nodes[nodeId].connections, nodeId)
       IN [nodes |-> [n \in DOMAIN scrubbed \ {nodeId} |-> scrubbed[n]],
           order |-> SelectSeq(net.order, LAMBDA n : n # nodeId),
           connections |-> SelectSeq(net.connections,
                              LAMBDA c : c.nodeA # nodeId /\ c.nodeB # nodeId)]

\* updateNodeStatus without its test: an id that is not in the map gets an entry
updateNodeStatusUpsert(net, nodeId, status) ==
  [net EXCEPT !.nodes = [n \in DOMAIN net.nodes \cup {nodeId} |->
                           IF n = nodeId
                           THEN [(IF n \in DOMAIN net.nodes THEN net.nodes[n] ELSE NewNode(0, 0))
                                   EXCEPT !.status = status, !.lastSeen = now]
                           ELSE net.nodes[n]],
               !.order = IF nodeId \in DOMAIN net.nodes THEN @ ELSE Append(@, nodeId)]

updateNodeStatus(net, nodeId, status) ==
  IF nodeId \in DOMAIN net.nodes
  THEN [net EXCEPT !.nodes[nodeId].status = status, !.nodes[nodeId].lastSeen = now]
  ELSE net

\* one turn of healNetwork with the filter run before the discovery
HealNodeFilterFirst(net, id) ==
  LET net1 == [net EXCEPT !.nodes[id].connections =
                 SelectSeq(@, LAMBDA connId : connId \in DOMAIN net.nodes
                                              /\ net.nodes[connId].status = "online")]
  IN IF Len(net1.nodes[id].connections) < MIN_CONNECTIONS
        /\ net1.nodes[id].status = "online"
     THEN discoverConnections(net1, id)
     ELSE net1

\* healNetwork's filter with the status test turned round
HealNodeKeepsOffline(net, id) ==
  LET net1 == IF Len(net.nodes[id].connections) < MIN_CONNECTIONS
                 /\ net.nodes[id].status = "online"
              THEN discoverConnections(net, id)
              ELSE net
  IN [net1 EXCEPT !.nodes[id].connections =
        SelectSeq(@, LAMBDA connId : connId \in DOMAIN net1.nodes
                                     /\ net1.nodes[connId].status # "online")]

\* one turn of healNetwork's forEach
HealNode(net, id) ==
  LET net1 == IF Len(net.nodes[id].connections) < MIN_CONNECTIONS
                 /\ net.nodes[id].status = "online"
              THEN discoverConnections(net, id)
              ELSE net
  IN [net1 EXCEPT !.nodes[id].connections =
        SelectSeq(@, LAMBDA connId : connId \in DOMAIN net1.nodes
                                     /\ net1.nodes[connId].status = "online")]

RECURSIVE HealEach(_, _)
HealEach(net, ids) ==
  IF ids = <<>> THEN net ELSE HealEach(HealNode(net, Head(ids)), Tail(ids))

healNetwork(net) == HealEach(net, net.order)

simulateFailure(net, nodeId) == healNetwork(updateNodeStatus(net, nodeId, "offline"))

simulateRecovery(net, nodeId) ==
  IF nodeId \in DOMAIN net.nodes
  THEN discoverConnections([net EXCEPT !.nodes[nodeId].status = "online"], nodeId)
  ELSE net

\* ------------------------------------------------------------ route planner
\* Numbers: a cost is held in units of 1/2000 (so that the factors 0.5, 0.3, 0.75
\* and /200 stay integral), a latency in tenths, a reliability as a reduced
\* fraction <<numerator, denominator>>.
ACO_ITERATIONS == 100
ANT_COUNT == 10
CostScale == 2000
Infinity == 1000000000

NoRoute == [none |-> TRUE]
IsRoute(r) == "path" \in DOMAIN r

RECURSIVE GCD(_, _)
GCD(a, b) == IF b = 0 THEN a ELSE GCD(b, a % b)
Frac(n, d) == LET g == GCD(n, d) IN IF g = 0 THEN <<0, 1>> ELSE <<n \div g, d \div g>>
FracMul(p, q) == Frac(p[1] * q[1], p[2] * q[2])

\* nodes.find(n => n.id === id)
Has(ns, id) == \E i \in 1..Len(ns) : ns[i].id = id
Get(ns, id) == ns[CHOOSE i \in 1..Len(ns) :
                    ns[i].id = id /\ \A j \in 1..(i - 1) : ns[j].id # id]

\* Map.get of a missing key is undefined; undefined and 0 are both falsy
MapGet(m, k) == IF k \in DOMAIN m THEN m[k] ELSE 0
MapSet(m, k, v) == [x \in DOMAIN m \cup {k} |-> IF x = k THEN v ELSE m[x]]
\* v || Infinity
OrInfinity(v) == IF v = 0 THEN Infinity ELSE v

\* -------------------------------------------------------------- DijkstraRouter
calculateEdgeCost(nodeA, nodeB) ==
  LET distance == calculateDistance(nodeA, nodeB)
      signalFactor200 == 200 - nodeA.signalStrength - nodeB.signalStrength
      batteryFactor200 == 200 - nodeA.battery - nodeB.battery
  IN distance * (CostScale + signalFactor200 * 5 + batteryFactor200 * 3)

RECURSIVE EstimateFrom(_, _, _)
EstimateFrom(path, ns, i) ==
  IF i > Len(path) - 1 THEN 0
  ELSE (IF Has(ns, path[i]) /\ Has(ns, path[i + 1])
        THEN 100 + calculateDistance(Get(ns, path[i]), Get(ns, path[i + 1]))
        ELSE 0) + EstimateFrom(path, ns, i + 1)

estimateLatency(path, ns) == EstimateFrom(path, ns, 1)

RECURSIVE ReliabilityFrom(_, _, _)
ReliabilityFrom(path, ns, i) ==
  IF i > Len(path) THEN <<1, 1>>
  ELSE LET rest == ReliabilityFrom(path, ns, i + 1)
       IN IF Has(ns, path[i])
          THEN FracMul(FracMul(Frac(Get(ns, path[i]).signalStrength, 100),
                               Frac(Get(ns, path[i]).battery, 100)), rest)
          ELSE rest

calculateReliability(path, ns) == ReliabilityFrom(path, ns, 1)

\* unvisited.forEach: the first id whose (distance || Infinity) is the strict minimum
RECURSIVE ScanMin(_, _, _, _)
ScanMin(distances, unvisited, minNode, minDistance) ==
  IF unvisited = <<>> THEN minNode
  ELSE LET nodeId == Head(unvisited)
           distance == OrInfinity(MapGet(distances, nodeId))
       IN IF distance < minDistance
          THEN ScanMin(distances, Tail(unvisited), nodeId, distance)
          ELSE ScanMin(distances, Tail(unvisited), minNode, minDistance)

\* currentNode.connections.forEach: relax the unvisited online neighbours
RECURSIVE Relax(_, _, _, _, _)
Relax(st, ns, currentNode, minNode, conns) ==
  IF conns = <<>> THEN st
  ELSE LET neighborId == Head(conns)
           skip == \/ neighborId \notin Range(st.unvisited)
                   \/ ~Has(ns, neighborId)
                   \/ Get(ns, neighborId).status # "online"
           edgeCost == calculateEdgeCost(currentNode, Get(ns, neighborId))
           newDistance == MapGet(st.distances, minNode) + edgeCost
           st1 == IF ~skip /\ newDistance < OrInfinity(MapGet(st.distances, neighborId))
                  THEN [st EXCEPT !.distances = MapSet(@, neighborId, newDistance),
                                  !.previous = MapSet(@, neighborId, minNode)]
                  ELSE st
       IN Relax(st1, ns, currentNode, minNode, Tail(conns))

\* while (unvisited.size > 0); 0 stands for null
RECURSIVE DijkstraLoop(_, _, _)
DijkstraLoop(st, ns, destinationId) ==
  IF st.unvisited = <<>> THEN st
  ELSE LET minNode == ScanMin(st.distances, st.unvisited, 0, Infinity)
       IN IF minNode = 0 \/ minNode = destinationId THEN st
          ELSE LET st1 == [st EXCEPT !.unvisited = SelectSeq(@, LAMBDA n : n # minNode)]
               IN IF ~Has(ns, minNode) THEN DijkstraLoop(st1, ns, destinationId)
                  ELSE DijkstraLoop(
                         Relax(st1, ns, Get(ns, minNode), minNode,
                               Get(ns, minNode).connections),
                         ns, destinationId)

\* walk previous from the destination; 0 stands for null
RECURSIVE Reconstruct(_, _, _)
Reconstruct(previous, current, path) ==
  IF current = 0 THEN path
  ELSE Reconstruct(previous, MapGet(previous, current), <<current>> \o path)

findShortestPath(ns, sourceId, destinationId) ==
  LET ids == { ns[i].id : i \in 1..Len(ns) }
      init == [distances |-> MapSet([n \in ids |-> Infinity], sourceId, 0),
               previous |-> [n \in ids |-> 0],
               unvisited |-> [i \in 1..Len(ns) |-> ns[i].id]]
      st == DijkstraLoop(init, ns, destinationId)
      path == Reconstruct(st.previous, destinationId, <<>>)
  IN IF path[1] # sourceId THEN NoRoute
     ELSE [source |-> sourceId, destination |-> destinationId, path |-> path,
           cost |-> OrInfinity(MapGet(st.distances, destinationId)),
           latency |-> estimateLatency(path, ns),
           reliability |-> calculateReliability(path, ns)]

\* ------------------------------------------------------------ AntColonyRouter
\* [nodeA, nodeB].sort().join('-'): the unordered pair
getEdgeKey(nodeA, nodeB) == <<Min(nodeA, nodeB), Max(nodeA, nodeB)>>

\* Pheromone values are real numbers; the model keeps, per key, whether the value
\* is PHEROMONE_INITIAL as the call in progress set it ("initial"), has been
\* evaporated / deposited on since then ("updated"), or is what an earlier call
\* left in the map ("stale").
\* initializePheromones that sets only the keys the map does not have yet
initializePheromonesKeepExisting(ph, ns) ==
  LET keys == UNION { { getEdgeKey(ns[i].id, nodeB) : nodeB \in Range(ns[i].connections) } :
                      i \in 1..Len(ns) }
  IN [k \in DOMAIN ph \cup keys |-> IF k \in DOMAIN ph THEN ph[k] ELSE "initial"]

initializePheromones(ph, ns) ==
  LET keys == UNION { { getEdgeKey(ns[i].id, nodeB) : nodeB \in Range(ns[i].connections) } :
                      i \in 1..Len(ns) }
  IN [k \in DOMAIN ph \cup keys |-> IF k \in keys THEN "initial" ELSE ph[k]]

evaporatePheromones(ph) ==
  [k \in DOMAIN ph |-> IF ph[k] = "stale" THEN "stale" ELSE "updated"]

depositPheromones(ph, route) ==
  LET keys == { getEdgeKey(route.path[i], route.path[i + 1]) :
                  i \in 1..(Len(route.path) - 1) }
  IN [k \in DOMAIN ph \cup keys |->
        IF k \in keys /\ MapGet(ph, k) # "stale" THEN "updated" ELSE ph[k]]

\* what a finished call leaves to the next one
LeftBehind(ph) == [k \in DOMAIN ph |-> "stale"]

\* The ids a roulette-wheel draw can return.  Every weight pheromone^ALPHA *
\* heuristic^BETA is positive, so Math.random() can land on any candidate.
selectNextNode(current, neighbors, ns, destination) ==
  { n \in Range(neighbors) : Has(ns, n) }

priorityModifier(priority) ==
  IF priority = "critical" THEN CostScale \div 2
  ELSE IF priority = "high" THEN (CostScale * 3) \div 4
  ELSE CostScale

\* antTraverse with the final "currentId !== destinationId" check forgotten
AntResultUnchecked(path, currentId, totalCost, sourceId, destinationId) ==
  [source |-> sourceId, destination |-> destinationId, path |-> path,
   cost |-> totalCost, latency |-> Len(path) * 150, reliability |-> <<9, 10>>]

\* what antTraverse returns once its while loop has ended at currentId
AntResult(path, currentId, totalCost, sourceId, destinationId) ==
  IF currentId # destinationId THEN NoRoute
  ELSE [source |-> sourceId, destination |-> destinationId, path |-> path,
        cost |-> totalCost, latency |-> Len(path) * 150, reliability |-> <<9, 10>>]

\* the routes (or NoRoute) one ant can come back with, from the loop state given
RECURSIVE AntWalk(_, _, _, _, _, _, _)
\* antTraverse with the status test left out of the neighbour filter
AntWalkAnyStatus(ns, path, currentId, totalCost, sourceId, destinationId, priority) ==
  IF currentId = destinationId \/ ~Has(ns, currentId)
  THEN { AntResult(path, currentId, totalCost, sourceId, destinationId) }
  ELSE LET currentNode == Get(ns, currentId)
           neighbors == SelectSeq(currentNode.connections,
                          LAMBDA id : Has(ns, id) /\ id \notin Range(path))
       IN IF neighbors = <<>>
          THEN { AntResult(path, currentId, totalCost, sourceId, destinationId) }
          ELSE UNION { AntWalk(ns, Append(path, nxt), nxt,
                               totalCost + calculateDistance(currentNode, Get(ns, nxt))
                                           * priorityModifier(priority),
                               sourceId, destinationId, priority) :
                       nxt \in selectNextNode(currentNode, neighbors, ns, destinationId) }

AntWalk(ns, path, currentId, totalCost, sourceId, destinationId, priority) ==
  IF currentId = destinationId \/ ~Has(ns, currentId)
  THEN { AntResult(path, currentId, totalCost, sourceId, destinationId) }
  ELSE LET currentNode == Get(ns, currentId)
           neighbors == SelectSeq(currentNode.connections,
                          LAMBDA id : /\ Has(ns, id)
                                      /\ Get(ns, id).status = "online"
                                      /\ id \notin Range(path))
       IN IF neighbors = <<>>
          THEN { AntResult(path, currentId, totalCost, sourceId, destinationId) }
          ELSE UNION { AntWalk(ns, Append(path, nxt), nxt,
                               totalCost + calculateDistance(currentNode, Get(ns, nxt))
                                           * priorityModifier(priority),
                               sourceId, destinationId, priority) :
                       nxt \in selectNextNode(currentNode, neighbors, ns, destinationId) }

antTraverse(ns, sourceId, destinationId, priority) ==
  AntWalk(ns, <<sourceId>>, sourceId, 0, sourceId, destinationId, priority)

\* the inner loop without its assignment to bestCost
AntStepKeepsLast(acc, route) ==
  IF ~IsRoute(route) THEN acc
  ELSE [routes |-> acc.routes \cup {route},
        bestRoute |-> IF route.cost < acc.bestCost THEN route ELSE acc.bestRoute,
        bestCost |-> acc.bestCost]

\* one ant of the inner loop, on the loop state acc = [bestRoute, bestCost, routes]
AntStep(acc, route) ==
  IF ~IsRoute(route) THEN acc
  ELSE [routes |-> acc.routes \cup {route},
        bestRoute |-> IF route.cost < acc.bestCost THEN route ELSE acc.bestRoute,
        bestCost |-> IF route.cost < acc.bestCost THEN route.cost ELSE acc.bestCost]

\* the loop states the ANT_COUNT ants of one iteration can leave
RECURSIVE DeployAnts(_, _, _)
DeployAnts(accs, outcomes, ant) ==
  IF ant >= ANT_COUNT THEN accs
  ELSE DeployAnts({ AntStep(acc, route) : acc \in accs, route \in outcomes },
                  outcomes, ant + 1)

RECURSIVE DepositAll(_, _)
DepositAll(ph, routes) ==
  IF routes = {} THEN ph
  ELSE LET r == CHOOSE r \in routes : TRUE
       IN DepositAll(depositPheromones(ph, r), routes \ {r})

\* --------------------------------------------------------- NetworkSimulator
\* A simulator node keeps id, position, status and connections; battery,
\* signalStrength and lastSeen, which tick redraws and nothing compares, are
\* left out.  The id `node-<time>-<index>` is held as its index.
\* generateRealisticNode: the centre of the cluster index falls in (area 400 x 400)
ClusterCentre(index) ==
  << ((index % 4) % 2) * 200 + 100, ((index % 4) \div 2) * 200 + 100 >>

\* the positions Math.random() is let to draw: 60 to the right of the centre
SimPositions(index) ==
  { << ClusterCentre(index)[1] + dx, ClusterCentre(index)[2] >> : dx \in {60} }

generateRealisticNode(index, pos) ==
  [id |-> index, x |-> pos[1], y |-> pos[2], status |-> "online", connections |-> <<>>]

\* Math.hypot is only compared, and the square orders as the distance does
Hypot2(a, b) == (a.x - b.x) * (a.x - b.x) + (a.y - b.y) * (a.y - b.y)

\* .sort((a, b) => a.distance - b.distance), stable
RECURSIVE SimInsert(_, _, _)
SimInsert(node, sorted, e) ==
  IF sorted = <<>> THEN <<e>>
  ELSE IF Hypot2(e, node) < Hypot2(Head(sorted), node)
       THEN <<e>> \o sorted
       ELSE <<Head(sorted)>> \o SimInsert(node, Tail(sorted), e)

RECURSIVE SimSort(_, _)
SimSort(node, ns) ==
  IF ns = <<>> THEN <<>>
  ELSE SimInsert(node, SimSort(node, SubSeq(ns, 1, Len(ns) - 1)), ns[Len(ns)])

\* rebuildConnections; slice[i] is node i's draw of 2 + Math.floor(Math.random() * 2)
rebuildConnections(ns, slice) ==
  [i \in 1..Len(ns) |->
     LET node == ns[i]
         nearby == SimSort(node, SelectSeq(ns,
                      LAMBDA n : n.id # node.id /\ n.status = "online"))
         kept == SubSeq(nearby, 1, Min(Len(nearby), slice[i]))
     IN [node EXCEPT !.connections = [j \in 1..Len(kept) |-> kept[j].id]]]

Slices(n) == [1..n -> {2, 3}]

\* generateCrisisEvent: the ids within radiusKm * 5 of the centre node
CrisisReach == {250, 150, 75, 25}
affectedNodes(ns, centre, reach) ==
  { ns[i].id : i \in { j \in 1..Len(ns) : Hypot2(ns[j], ns[centre]) < reach * reach } }

SetOffline(ns, ids) ==
  [i \in 1..Len(ns) |-> IF ns[i].id \in ids THEN [ns[i] EXCEPT !.status = "offline"] ELSE ns[i]]

\* --------------------------------------------------------------- Blockchain
\* A block keeps index, messageHash and previousHash; timestamp, nonce and data
\* are left out (verifyChain reads none of them).  sha256(JSON.stringify(message))
\* is held as the number of the message, '0' as 0.
Calls == 1..MaxCalls
BcMessages == {1, 2}
sha256(message) == message

createGenesisBlock == [index |-> 0, messageHash |-> 0, previousHash |-> 0]

getLatestBlock(c) == c[Len(c)]

verifyChain(c) == \A i \in 2..Len(c) : c[i].previousHash = c[i - 1].messageHash

\* ------------------------------------------------------------------ actions
\* the arrays stay within the model's caps
Fits(net) ==
  /\ Len(net.connections) <= MaxEdges
  /\ \A n \in DOMAIN net.nodes : Len(net.nodes[n].connections) <= MaxConnLen

\* lastOp.known: the id named a node of the map when the call was made
Install(net, op, arg) ==
  /\ Fits(net)
  /\ nodes' = net.nodes
  /\ nodeOrder' = net.order
  /\ connections' = net.connections
  /\ lastOp' = [op |-> op, id |-> arg, known |-> arg \in DOMAIN nodes]
  /\ UNCHANGED <<now, routeVars, appVars>>

CreateNodeUpTo(last) ==
  /\ nextId <= last
  /\ \E p \in Points : Install(createNode(Net, nextId, p[1], p[2]), "createNode", nextId)
  /\ nextId' = nextId + 1

CreateNode == CreateNodeUpTo(MaxNodes)

RemoveNode ==
  /\ \E id \in Ids : Install(removeNode(Net, id), "removeNode", id)
  /\ UNCHANGED nextId

UpdateNodeStatus ==
  /\ \E id \in Ids, s \in Status : Install(updateNodeStatus(Net, id, s), "updateNodeStatus", id)
  /\ UNCHANGED nextId

HealNetwork ==
  /\ Install(healNetwork(Net), "healNetwork", 0)
  /\ UNCHANGED nextId

SimulateFailure ==
  /\ \E id \in Ids : Install(simulateFailure(Net, id), "simulateFailure", id)
  /\ UNCHANGED nextId

SimulateRecovery ==
  /\ \E id \in Ids : Install(simulateRecovery(Net, id), "simulateRecovery", id)
  /\ UNCHANGED nextId

\* no routing call has been made
RouterIdle ==
  /\ call = [fn |-> "none", source |-> 0, destination |-> 0, priority |-> "none"]
  /\ pc = "idle"
  /\ iter = 0
  /\ bestRoute = NoRoute
  /\ bestCost = Infinity
  /\ allRoutes = <<>>
  /\ pheromones = <<>>
  /\ found = {}
  /\ result = NoRoute

\* no loop is being stepped through
NoLoop == [at |-> "none"]

\* the simulator and the ledger as constructed; no call is inside a loop
AppIdle ==
  /\ simNodes = <<>>
  /\ chain = <<createGenesisBlock>>
  /\ calls = [p \in Calls |-> [pc |-> "idle"]]
  /\ loop = NoLoop

MeshEmpty ==
  /\ nodes = <<>>
  /\ nodeOrder = <<>>
  /\ connections = <<>>
  /\ nextId = 1
  /\ lastOp = [op |-> "init", id |-> 0, known |-> FALSE]
  /\ now = 0

Init ==
  /\ MeshEmpty
  /\ topology = <<>>
  /\ RouterIdle
  /\ AppIdle

Next ==
  \/ CreateNode
  \/ RemoveNode
  \/ UpdateNodeStatus
  \/ HealNetwork
  \/ SimulateFailure
  \/ SimulateRecovery

Spec == Init /\ [][Next]_vars

\* establishConnection is public: create / establish / remove only
EstablishConnection ==
  /\ \E a \in DOMAIN nodes, b \in DOMAIN nodes :
       Install(establishConnection(Net, a, b), "establishConnection", a)
  /\ UNCHANGED nextId

NextCER ==
  \/ CreateNode
  \/ EstablishConnection
  \/ RemoveNode

SpecCER == Init /\ [][NextCER]_vars

\* the clock moves between two calls; every status is used
Tick ==
  /\ now < MaxClock
  /\ now' = now + 1
  /\ UNCHANGED <<nodes, nodeOrder, connections, nextId, lastOp, routeVars, appVars>>

CreateNodeClock == CreateNodeUpTo(MaxClockNodes)

UpdateNodeStatusAny ==
  /\ \E id \in Ids, s \in AnyStatus :
       Install(updateNodeStatus(Net, id, s), "updateNodeStatus", id)
  /\ UNCHANGED nextId

NextClock ==
  \/ Tick
  \/ CreateNodeClock
  \/ RemoveNode
  \/ UpdateNodeStatusAny
  \/ HealNetwork
  \/ SimulateFailure
  \/ SimulateRecovery

SpecClock == Init /\ [][NextClock]_vars

\* A crowd: up to MaxCrowd nodes are created, so that a new node finds more than
\* MAX_CONNECTIONS others in range; the first node may have gone offline.  The
\* arrays are not capped here, the number of calls is.
CreateNodeCrowd ==
  /\ nextId <= MaxCrowd
  /\ \E p \in Points :
       LET net == createNode(Net, nextId, p[1], p[2])
       IN /\ p = <<600, 0>> =>
               Cardinality({ n \in DOMAIN nodes : nodes[n].x = 600 }) < MaxFar
          /\ nodes' = net.nodes
          /\ nodeOrder' = net.order
          /\ connections' = net.connections
  /\ lastOp' = [op |-> "createNode", id |-> nextId, known |-> FALSE]
  /\ nextId' = nextId + 1
  /\ UNCHANGED <<now, routeVars, appVars>>

FirstNodeOffline ==
  /\ 1 \in DOMAIN nodes
  /\ nodes[1].status = "online"
  /\ LET net == updateNodeStatus(Net, 1, "offline")
     IN /\ nodes' = net.nodes
        /\ nodeOrder' = net.order
        /\ connections' = net.connections
  /\ lastOp' = [op |-> "updateNodeStatus", id |-> 1, known |-> TRUE]
  /\ UNCHANGED <<nextId, now, routeVars, appVars>>

NextCrowd ==
  \/ CreateNodeCrowd
  \/ FirstNodeOffline

SpecCrowd == Init /\ [][NextCrowd]_vars

\* ------------------------------------------------------------ routing calls
\* The node lists the router is called with: three nodes at fixed positions
\* (pairwise distances 300, 400, 500), each online or offline, each with one of
\* a few connections arrays (symmetric, one-directional, with a duplicate entry,
\* with an entry naming the id 4 that is in no list).
RPosition == <<  <<0, 0>>, <<300, 0>>, <<300, 400>> >>
RConnections ==
  << { <<>>, <<2>>, <<2, 3>>, <<2, 2, 4>> },
     { <<>>, <<1>>, <<3>>, <<1, 3>> },
     { <<>>, <<2>>, <<1, 2>> } >>
RStatus == {"online", "offline"}
RSources == {1, 4}
RDestinations == {1, 3, 4}
Priority == {"critical", "high", "normal", "low"}

Topologies ==
  { [i \in 1..3 |->
       [id |-> i, x |-> RPosition[i][1], y |-> RPosition[i][2], status |-> st[i],
        battery |-> 100, signalStrength |-> 100, connections |-> cs[i],
        lastSeen |-> 0, messageCount |-> 0]] :
    st \in [1..3 -> RStatus],
    cs \in { c \in [1..3 -> UNION { RConnections[i] : i \in 1..3 }] :
                \A i \in 1..3 : c[i] \in RConnections[i] } }

\* findOptimalPath up to its loop: initializePheromones and the two locals
StartAco ==
  /\ pheromones' = initializePheromones(pheromones, topology)
  /\ pc' = "aco"
  /\ iter' = 0
  /\ bestRoute' = NoRoute
  /\ bestCost' = Infinity
  /\ found' = {}
  /\ result' = NoRoute

\* findRoute that counts the call on the source node it was given
FindRouteOfCounting(sources, destinations, priorities) ==
  /\ pc = "idle"
  /\ \E s \in sources, d \in destinations, p \in priorities :
       /\ call' = [fn |-> "findRoute", source |-> s, destination |-> d, priority |-> p]
       /\ topology' = [i \in 1..Len(topology) |->
                         IF topology[i].id = s
                         THEN [topology[i] EXCEPT !.messageCount = 1]
                         ELSE topology[i]]
       /\ IF p = "critical"
          THEN /\ result' = findShortestPath(topology, s, d)
               /\ found' = {}
               /\ UNCHANGED <<pc, iter, bestRoute, bestCost, pheromones>>
          ELSE StartAco
  /\ UNCHANGED allRoutes
  /\ UNCHANGED <<meshVars, appVars>>

\* Router.findRoute, called with a source, a destination and a priority of these sets
FindRouteOf(sources, destinations, priorities) ==
  /\ pc = "idle"
  /\ \E s \in sources, d \in destinations, p \in priorities :
       /\ call' = [fn |-> "findRoute", source |-> s, destination |-> d, priority |-> p]
       /\ IF p = "critical"
          THEN /\ result' = findShortestPath(topology, s, d)
               /\ found' = {}
               /\ UNCHANGED <<pc, iter, bestRoute, bestCost, pheromones>>
          ELSE StartAco
  /\ UNCHANGED <<topology, allRoutes>>
  /\ UNCHANGED <<meshVars, appVars>>

FindRoute == FindRouteOf(RSources, RDestinations, Priority)

\* Router.findAllRoutes up to the loop of findOptimalPath
FindAllRoutes ==
  /\ pc = "idle"
  /\ \E s \in RSources, d \in RDestinations :
       /\ call' = [fn |-> "findAllRoutes", source |-> s, destination |-> d,
                   priority |-> "critical"]
       /\ LET dijkstraRoute == findShortestPath(topology, s, d)
          IN allRoutes' = IF IsRoute(dijkstraRoute)
                          THEN << [dijkstraRoute EXCEPT !.reliability = <<19, 20>>] >>
                          ELSE <<>>
  /\ StartAco
  /\ UNCHANGED topology
  /\ UNCHANGED <<meshVars, appVars>>

\* one iteration of findOptimalPath's outer loop: ANT_COUNT ants, then
\* evaporatePheromones and depositPheromones for the iteration's routes
AcoIteration ==
  /\ pc = "aco"
  /\ iter < ACO_ITERATIONS
  /\ \E acc \in DeployAnts({ [routes |-> {}, bestRoute |-> bestRoute, bestCost |-> bestCost] },
                            antTraverse(topology, call.source, call.destination,
                                        call.priority), 0) :
       /\ bestRoute' = acc.bestRoute
       /\ bestCost' = acc.bestCost
       /\ pheromones' = DepositAll(evaporatePheromones(pheromones), acc.routes)
       /\ found' = found \cup acc.routes
  /\ iter' = iter + 1
  /\ UNCHANGED <<topology, call, pc, allRoutes, result>>
  /\ UNCHANGED <<meshVars, appVars>>

\* findOptimalPath returns bestRoute (to findRoute or to findAllRoutes)
AcoReturn ==
  /\ pc = "aco"
  /\ iter = ACO_ITERATIONS
  /\ result' = IF call.fn = "findRoute" THEN bestRoute
               ELSE IF IsRoute(bestRoute) THEN Append(allRoutes, bestRoute)
               ELSE allRoutes
  /\ pc' = "idle"
  /\ iter' = 0
  /\ bestRoute' = NoRoute
  /\ bestCost' = Infinity
  /\ allRoutes' = <<>>
  /\ pheromones' = LeftBehind(pheromones)
  /\ UNCHANGED <<topology, call, found>>
  /\ UNCHANGED <<meshVars, appVars>>

InitRoute ==
  /\ MeshEmpty
  /\ topology \in Topologies
  /\ RouterIdle
  /\ AppIdle

NextRoute ==
  \/ FindRoute
  \/ FindAllRoutes
  \/ AcoIteration
  \/ AcoReturn

SpecRoute == InitRoute /\ [][NextRoute]_vars

\* One router used for call after call, the caller's node list changing between
\* two calls: every node online, the adjacency lists any of RConnections.
ReuseTopologies == { t \in Topologies : \A i \in 1..3 : t[i].status = "online" }

ChangeTopology ==
  /\ pc = "idle"
  /\ topology' \in ReuseTopologies
  /\ UNCHANGED <<call, pc, iter, bestRoute, bestCost, allRoutes, pheromones, found, result>>
  /\ UNCHANGED <<meshVars, appVars>>

FindRouteReuse == FindRouteOf({1}, {3}, {"normal"})

InitReuse ==
  /\ MeshEmpty
  /\ topology \in ReuseTopologies
  /\ RouterIdle
  /\ AppIdle

NextReuse ==
  \/ ChangeTopology
  \/ FindRouteReuse
  \/ AcoIteration
  \/ AcoReturn

SpecReuse == InitReuse /\ [][NextReuse]_vars

\* -------------------------------------------------------- simulator calls
\* NetworkSimulator.init(nodeCount)
SimInit ==
  /\ \E nodeCount \in 0..MaxSimNodes :
       \E pos \in [0..(nodeCount - 1) -> UNION { SimPositions(i) : i \in 0..3 }],
          slice \in Slices(nodeCount) :
         /\ \A i \in 0..(nodeCount - 1) : pos[i] \in SimPositions(i)
         /\ simNodes' = rebuildConnections(
                           [i \in 1..nodeCount |-> generateRealisticNode(i - 1, pos[i - 1])],
                           slice)
  /\ UNCHANGED <<meshVars, routeVars, chain, calls, loop>>

\* NetworkSimulator.addNode
SimAddNode ==
  /\ Len(simNodes) < MaxSimNodes
  /\ \E pos \in SimPositions(Len(simNodes)), slice \in Slices(Len(simNodes) + 1) :
       simNodes' = rebuildConnections(
                     Append(simNodes, generateRealisticNode(Len(simNodes), pos)), slice)
  /\ UNCHANGED <<meshVars, routeVars, chain, calls, loop>>

\* NetworkSimulator.tick: every node may fail or recover, rebuildConnections,
\* then a crisis may take nodes of its zone offline
SimTick ==
  /\ \E rebuilt \in { rebuildConnections(
                         [i \in 1..Len(simNodes) |-> [simNodes[i] EXCEPT !.status = status[i]]],
                         slice) :
                       status \in [1..Len(simNodes) -> {"online", "offline"}],
                       slice \in Slices(Len(simNodes)) } :
       \E hit \in {{}} \cup UNION { SUBSET affectedNodes(rebuilt, centre, reach) :
                                     centre \in 1..Len(simNodes), reach \in CrisisReach } :
         simNodes' = SetOffline(rebuilt, hit)
  /\ UNCHANGED <<meshVars, routeVars, chain, calls, loop>>

\* NetworkSimulator.triggerCrisis: the first five nodes go offline
SimTriggerCrisis ==
  /\ simNodes' = SetOffline(simNodes,
                    { simNodes[i].id : i \in 1..Min(5, Len(simNodes)) })
  /\ UNCHANGED <<meshVars, routeVars, chain, calls, loop>>

NextSim ==
  \/ SimInit
  \/ SimAddNode
  \/ SimTick
  \/ SimTriggerCrisis

SpecSim == Init /\ [][NextSim]_vars

\* ------------------------------------------------------------ ledger calls
\* addMessage up to its first await: previousBlock is read
AddMessageCall(p) ==
  /\ calls[p].pc = "idle"
  /\ \E message \in BcMessages :
       calls' = [calls EXCEPT ![p] = [pc |-> "sha256", message |-> message,
                                      previousBlock |-> getLatestBlock(chain)]]
  /\ UNCHANGED <<meshVars, routeVars, simNodes, chain, loop>>

\* sha256 has resolved: newBlock is built from previousBlock, mining starts
AddMessageHashed(p) ==
  /\ calls[p].pc = "sha256"
  /\ calls' = [calls EXCEPT ![p] =
                 [pc |-> "mineBlock",
                  newBlock |-> [index |-> calls[p].previousBlock.index + 1,
                                messageHash |-> sha256(calls[p].message),
                                previousHash |-> calls[p].previousBlock.messageHash]]]
  /\ UNCHANGED <<meshVars, routeVars, simNodes, chain, loop>>

\* mineBlock has resolved: the block is pushed and returned
AddMessageMined(p) ==
  /\ calls[p].pc = "mineBlock"
  /\ chain' = Append(chain, calls[p].newBlock)
  /\ calls' = [calls EXCEPT ![p] = [pc |-> "done"]]
  /\ UNCHANGED <<meshVars, routeVars, simNodes, loop>>

NextChain ==
  \/ \E p \in Calls : AddMessageCall(p)
  \/ \E p \in Calls : AddMessageHashed(p)
  \/ \E p \in Calls : AddMessageMined(p)

SpecChain == Init /\ [][NextChain]_vars

\* ------------------------------------------------------------ loops, stepped
\* The while and forEach loops of the routers and of healNetwork, one turn per
\* step.  Either the router is exercised (a node list of Topologies, the mesh
\* left empty) or the mesh is (up to MaxClockNodes nodes, the router's list empty).
\* JavaScript runs a call to its end before the next one starts.
Quiet == loop = NoLoop /\ pc = "idle"

\* findShortestPath: distances, previous and unvisited as the loop finds them
DijkstraInit(ns, sourceId) ==
  LET ids == { ns[i].id : i \in 1..Len(ns) }
  IN [distances |-> MapSet([n \in ids |-> Infinity], sourceId, 0),
      previous |-> [n \in ids |-> 0],
      unvisited |-> [i \in 1..Len(ns) |-> ns[i].id]]

DijkstraCall ==
  /\ Quiet
  /\ topology # <<>>
  /\ \E s \in RSources, d \in RDestinations :
       /\ call' = [fn |-> "findShortestPath", source |-> s, destination |-> d,
                   priority |-> "critical"]
       /\ loop' = [at |-> "dijkstra", st |-> DijkstraInit(topology, s)]
  /\ result' = NoRoute
  /\ UNCHANGED <<topology, pc, iter, bestRoute, bestCost, allRoutes, pheromones, found>>
  /\ UNCHANGED <<meshVars, simNodes, chain, calls>>

\* one test of `unvisited.size > 0` and one pass through the body; the loop is
\* left for the reconstruction when the set is empty or at the break
DijkstraTurn ==
  /\ loop.at = "dijkstra"
  /\ LET st == loop.st
         minNode == ScanMin(st.distances, st.unvisited, 0, Infinity)
     IN IF st.unvisited = <<>> \/ minNode = 0 \/ minNode = call.destination
        THEN loop' = [at |-> "reconstruct", st |-> st, current |-> call.destination,
                      path |-> <<>>]
        ELSE LET st1 == [st EXCEPT !.unvisited = SelectSeq(@, LAMBDA n : n # minNode)]
             IN loop' = [loop EXCEPT !.st =
                           IF ~Has(topology, minNode) THEN st1
                           ELSE Relax(st1, topology, Get(topology, minNode), minNode,
                                      Get(topology, minNode).connections)]
  /\ UNCHANGED <<meshVars, routeVars, simNodes, chain, calls>>

\* while (current !== null): one turn
ReconstructTurn ==
  /\ loop.at = "reconstruct"
  /\ loop.current # 0
  /\ loop' = [loop EXCEPT !.path = <<loop.current>> \o @,
                          !.current = MapGet(loop.st.previous, loop.current)]
  /\ UNCHANGED <<meshVars, routeVars, simNodes, chain, calls>>

\* findShortestPath returns
DijkstraReturn ==
  /\ loop.at = "reconstruct"
  /\ loop.current = 0
  /\ result' = IF loop.path[1] # call.source THEN NoRoute
               ELSE [source |-> call.source, destination |-> call.destination,
                     path |-> loop.path,
                     cost |-> OrInfinity(MapGet(loop.st.distances, call.destination)),
                     latency |-> estimateLatency(loop.path, topology),
                     reliability |-> calculateReliability(loop.path, topology)]
  /\ loop' = NoLoop
  /\ UNCHANGED <<topology, call, pc, iter, bestRoute, bestCost, allRoutes, pheromones, found>>
  /\ UNCHANGED <<meshVars, simNodes, chain, calls>>

\* antTraverse up to its while loop
AntCall ==
  /\ Quiet
  /\ topology # <<>>
  /\ \E s \in RSources, d \in RDestinations :
       /\ call' = [fn |-> "antTraverse", source |-> s, destination |-> d,
                   priority |-> "normal"]
       /\ loop' = [at |-> "ant", path |-> <<s>>, currentId |-> s, totalCost |-> 0]
  /\ result' = NoRoute
  /\ UNCHANGED <<topology, pc, iter, bestRoute, bestCost, allRoutes, pheromones, found>>
  /\ UNCHANGED <<meshVars, simNodes, chain, calls>>

\* the neighbour filter without its `!visited.has(id)`
AntNeighborsRevisit(ns, path, currentId) ==
  SelectSeq(Get(ns, currentId).connections,
            LAMBDA id : Has(ns, id) /\ Get(ns, id).status = "online")

\* the neighbours an ant at currentId can still move to
AntNeighbors(ns, path, currentId) ==
  SelectSeq(Get(ns, currentId).connections,
            LAMBDA id : /\ Has(ns, id)
                        /\ Get(ns, id).status = "online"
                        /\ id \notin Range(path))

\* while (currentId !== destinationId): one turn that does not break
AntTurn ==
  /\ loop.at = "ant"
  /\ loop.currentId # call.destination
  /\ Has(topology, loop.currentId)
  /\ LET currentNode == Get(topology, loop.currentId)
         neighbors == AntNeighbors(topology, loop.path, loop.currentId)
     IN /\ neighbors # <<>>
        /\ \E nxt \in selectNextNode(currentNode, neighbors, topology, call.destination) :
             loop' = [at |-> "ant", path |-> Append(loop.path, nxt), currentId |-> nxt,
                      totalCost |-> loop.totalCost
                                      + calculateDistance(currentNode, Get(topology, nxt))
                                        * priorityModifier(call.priority)]
  /\ UNCHANGED <<meshVars, routeVars, simNodes, chain, calls>>

\* the loop has ended, at the destination or at a break: antTraverse returns
AntReturn ==
  /\ loop.at = "ant"
  /\ IF loop.currentId = call.destination \/ ~Has(topology, loop.currentId) THEN TRUE
     ELSE AntNeighbors(topology, loop.path, loop.currentId) = <<>>
  /\ result' = AntResult(loop.path, loop.currentId, loop.totalCost,
                         call.source, call.destination)
  /\ loop' = NoLoop
  /\ UNCHANGED <<topology, call, pc, iter, bestRoute, bestCost, allRoutes, pheromones, found>>
  /\ UNCHANGED <<meshVars, simNodes, chain, calls>>

\* findRoute (not critical) and findAllRoutes: the two for loops of findOptimalPath
FindRouteLoops ==
  /\ Quiet
  /\ topology # <<>>
  /\ FindRouteOf(RSources, RDestinations, {"normal"})

FindAllRoutesLoops ==
  /\ Quiet
  /\ topology # <<>>
  /\ FindAllRoutes

\* the mesh calls that healNetwork is stepped between
CreateNodeLoops == Quiet /\ topology = <<>> /\ CreateNodeClock
RemoveNodeLoops == Quiet /\ topology = <<>> /\ RemoveNode
UpdateNodeStatusLoops == Quiet /\ topology = <<>> /\ UpdateNodeStatus

\* healNetwork is called; todo is what this.nodes.forEach has still to visit
HealCall ==
  /\ Quiet
  /\ topology = <<>>
  /\ Fits(healNetwork(Net))
  /\ loop' = [at |-> "heal", todo |-> nodeOrder]
  /\ lastOp' = [op |-> "healNetwork", id |-> 0, known |-> FALSE]
  /\ UNCHANGED <<nodes, nodeOrder, connections, nextId, now>>
  /\ UNCHANGED <<routeVars, simNodes, chain, calls>>

\* one turn of the forEach
HealTurn ==
  /\ loop.at = "heal"
  /\ loop.todo # <<>>
  /\ LET net == HealNode(Net, Head(loop.todo))
     IN /\ nodes' = net.nodes
        /\ nodeOrder' = net.order
        /\ connections' = net.connections
  /\ loop' = [loop EXCEPT !.todo = Tail(@)]
  /\ UNCHANGED <<nextId, lastOp, now>>
  /\ UNCHANGED <<routeVars, simNodes, chain, calls>>

\* the forEach has visited every entry: healNetwork returns
HealReturn ==
  /\ loop.at = "heal"
  /\ loop.todo = <<>>
  /\ loop' = NoLoop
  /\ UNCHANGED <<meshVars, routeVars, simNodes, chain, calls>>

InitLoops ==
  /\ MeshEmpty
  /\ topology \in Topologies \cup {<<>>}
  /\ RouterIdle
  /\ AppIdle

\* a call is made
CallLoops ==
  \/ DijkstraCall
  \/ AntCall
  \/ FindRouteLoops
  \/ FindAllRoutesLoops
  \/ CreateNodeLoops
  \/ RemoveNodeLoops
  \/ UpdateNodeStatusLoops
  \/ HealCall

\* the call in progress takes its next step
StepLoops ==
  \/ DijkstraTurn
  \/ ReconstructTurn
  \/ DijkstraReturn
  \/ AntTurn
  \/ AntReturn
  \/ AcoIteration
  \/ AcoReturn
  \/ HealTurn
  \/ HealReturn

NextLoops == CallLoops \/ StepLoops

SpecLoops == InitLoops /\ [][NextLoops]_vars

\* ------------------------------------------------------------------- claims
Exists(a) == a \in DOMAIN nodes
Adj(a) == IF Exists(a) THEN Range(nodes[a].connections) ELSE {}
AdjOf(net, a) == Range(net.nodes[a].connections)
HasEdgeRecord(a, b) ==
  \E i \in 1..Len(connections) :
    {connections[i].nodeA, connections[i].nodeB} = {a, b}

\* C1: a Connection record for the pair {A,B} is in the edge list if and only if
\* A's connections contains B and B's connections contains A.
C1_EdgeListIffAdjacency ==
  \A a \in Ids, b \in Ids :
    a # b => (HasEdgeRecord(a, b) <=> (b \in Adj(a) /\ a \in Adj(b)))

\* C2: after create / establish / remove only, for all remaining nodes A and B,
\* B is in A.connections if and only if A is in B.connections.
C2_SymmetricAfterCER ==
  \A a \in DOMAIN nodes, b \in DOMAIN nodes : (b \in Adj(a)) <=> (a \in Adj(b))

C2_Witness ==
  /\ lastOp.op = "removeNode" /\ lastOp.known
  /\ \E a \in DOMAIN nodes, b \in DOMAIN nodes : a # b /\ b \in Adj(a) /\ a \in Adj(b)
  /\ \E i \in 1..Len(connections) : connections[i].nodeA = connections[i].nodeB

\* C3: adjacency stays symmetric when the sequence also contains updateNodeStatus,
\* healNetwork, simulateFailure and simulateRecovery.
C3_SymmetricAlways ==
  \A a \in DOMAIN nodes : \A b \in Adj(a) \cap DOMAIN nodes : a \in Adj(b)

\* C4: immediately after removeNode(X) of an existing node X no remaining node's
\* connections contains X and no Connection record has X as nodeA or nodeB.
C4_NoDanglingAfterRemove ==
  (lastOp.op = "removeNode" /\ lastOp.known) =>
     /\ \A n \in DOMAIN nodes : lastOp.id \notin Adj(n)
     /\ \A i \in 1..Len(connections) :
          connections[i].nodeA # lastOp.id /\ connections[i].nodeB # lastOp.id

\* C5: healNetwork is idempotent: a second healNetwork() right after the first
\* leaves every node with the same adjacency set.
C5_HealIdempotent ==
  lastOp.op = "healNetwork" =>
     \A n \in DOMAIN nodes : AdjOf(healNetwork(Net), n) = Adj(n)

\* ---- routing claims
RIds == { topology[i].id : i \in 1..Len(topology) }
ROnline(id) == Has(topology, id) /\ Get(topology, id).status = "online"
RConns(id) == IF Has(topology, id) THEN Range(Get(topology, id).connections) ELSE {}
Returned == pc = "idle" /\ call.fn # "none"
CriticalReturned == Returned /\ call.fn = "findRoute" /\ call.priority = "critical"

\* the nodes reached from S by following adjacency entries to online nodes
RECURSIVE OnlineReach(_)
OnlineReach(S) ==
  LET more == S \cup { b \in RIds : ROnline(b) /\ \E a \in S : b \in RConns(a) }
  IN IF more = S THEN S ELSE OnlineReach(more)

\* the connected component of S in the (undirected) adjacency graph
RECURSIVE Component(_)
Component(S) ==
  LET more == S \cup { b \in RIds : \E a \in S : b \in RConns(a) \/ a \in RConns(b) }
  IN IF more = S THEN S ELSE Component(more)

\* every node of the path after the first is in the connections of the one before
Chained(path) == \A i \in 1..(Len(path) - 1) : path[i + 1] \in RConns(path[i])

\* the simple paths of the adjacency graph that extend path to d
RECURSIVE SimplePaths(_, _)
SimplePaths(path, d) ==
  IF path[Len(path)] = d THEN { path }
  ELSE UNION { SimplePaths(Append(path, b), d) :
               b \in (RConns(path[Len(path)]) \cap RIds) \ Range(path) }

RECURSIVE PathLength(_, _)
PathLength(path, i) ==
  IF i >= Len(path) THEN 0
  ELSE calculateDistance(Get(topology, path[i]), Get(topology, path[i + 1]))
       + PathLength(path, i + 1)

\* C6: for distinct existing nodes s and d with d reachable from s through online
\* nodes, findShortestPath (findRoute with priority critical) returns a route from
\* s to d whose every node is in the connections of the node before it; it
\* returns no-path only when d is unreachable.
C6_DijkstraFindsReachable ==
  (CriticalReturned /\ call.source # call.destination
     /\ Has(topology, call.source) /\ Has(topology, call.destination)) =>
    /\ (ROnline(call.source) /\ call.destination \in OnlineReach({call.source})) =>
         /\ IsRoute(result)
         /\ result.path[1] = call.source
         /\ result.path[Len(result.path)] = call.destination
         /\ Chained(result.path)
    /\ ~IsRoute(result) => call.destination \notin OnlineReach({call.source})

\* C7: with all nodes online at battery 100 and signalStrength 100, the route
\* findShortestPath returns has a cost equal to the sum of the edge distances along
\* its path, and that cost is minimal among all source-to-destination paths.
C7_DijkstraOptimal ==
  (/\ CriticalReturned
   /\ \A n \in RIds : ROnline(n) /\ Get(topology, n).battery = 100
                                 /\ Get(topology, n).signalStrength = 100
   /\ Has(topology, call.source) /\ Has(topology, call.destination)
   /\ IsRoute(result)) =>
    /\ result.cost = CostScale * PathLength(result.path, 1)
    /\ \A p \in SimplePaths(<<call.source>>, call.destination) :
         result.cost <= CostScale * PathLength(p, 1)

\* C8: if source and destination are distinct nodes in disjoint connected components
\* of the adjacency graph, findShortestPath and findOptimalPath (every priority)
\* return null: findRoute returns no route, findAllRoutes an empty list, and no ant
\* of the call brings a route back.
C8_DisjointNoPath ==
  (/\ call.fn # "none" /\ call.source # call.destination
   /\ Has(topology, call.source) /\ Has(topology, call.destination)
   /\ call.destination \notin Component({call.source})) =>
    /\ pc = "aco" => (bestRoute = NoRoute /\ allRoutes = <<>>)
    /\ (pc = "idle" /\ call.fn = "findRoute") => result = NoRoute
    /\ (pc = "idle" /\ call.fn = "findAllRoutes") => result = <<>>

C8_Witness ==
  /\ Returned /\ call.fn = "findAllRoutes"
  /\ call.source = 1 /\ call.destination = 3
  /\ 3 \notin Component({1}) /\ 2 \in Component({1})
  /\ \A n \in RIds : ROnline(n)
  /\ result = <<>>

\* C9: every route findRoute returns (any priority) contains only online nodes,
\* source and destination included; when the source or the destination is not
\* online the result is no-path.  (Stated for source and destination in the list.)
C9_OnlyOnlineNodes ==
  (Returned /\ call.fn = "findRoute"
     /\ Has(topology, call.source) /\ Has(topology, call.destination)) =>
    /\ IsRoute(result) => \A i \in 1..Len(result.path) : ROnline(result.path[i])
    /\ (~ROnline(call.source) \/ ~ROnline(call.destination)) => result = NoRoute

\* C10: findRoute and findAllRoutes called with a source or destination id that is
\* not in the node list report no route (null, respectively an empty list), also
\* when the same unknown id is passed as source and as destination.
C10_UnknownIdNoRoute ==
  (Returned /\ (~Has(topology, call.source) \/ ~Has(topology, call.destination))) =>
    /\ call.fn = "findRoute" => result = NoRoute
    /\ call.fn = "findAllRoutes" => result = <<>>
\* ------------------------------------------------ mesh core, second group
\* records of the edge list between a and b
EdgeRecords(conns, a, b) ==
  { i \in 1..Len(conns) : {conns[i].nodeA, conns[i].nodeB} = {a, b} }

\* C11: removeNode(id) and updateNodeStatus(id, status) called with an id that
\* is not in the node map leave the node map, every node's fields and
\* adjacency, and the edge list as they were.
C11_UnknownIdNoOp ==
  [][(lastOp'.op \in {"removeNode", "updateNodeStatus"} /\ ~lastOp'.known)
       => (nodes' = nodes /\ nodeOrder' = nodeOrder /\ connections' = connections)]_vars

\* removeNode has been called with an id that is no longer in the map while a
\* node still names that id and the edge list is not empty
C11_Witness ==
  /\ lastOp.op = "removeNode"
  /\ ~lastOp.known
  /\ \E n \in DOMAIN nodes : lastOp.id \in Adj(n)
  /\ connections # <<>>

\* C12: healNetwork removes no edge between two nodes that both exist and are
\* online when it runs: B stays in A's connections, and no Connection record
\* of the pair {A, B} leaves the edge list.
C12_HealKeepsOnlineEdges ==
  [][lastOp'.op = "healNetwork"
       => \A a \in DOMAIN nodes, b \in DOMAIN nodes :
            (nodes[a].status = "online" /\ nodes[b].status = "online")
              => /\ a \in DOMAIN nodes'
                 /\ (b \in Adj(a) => b \in Range(nodes'[a].connections))
                 /\ Cardinality(EdgeRecords(connections', a, b))
                      >= Cardinality(EdgeRecords(connections, a, b))]_vars

\* healNetwork has run with two online nodes linked both ways and an offline
\* third node that it pruned from an adjacency
C12_Witness ==
  /\ lastOp.op = "healNetwork"
  /\ \E a \in DOMAIN nodes, b \in DOMAIN nodes, c \in DOMAIN nodes :
       /\ a # b
       /\ nodes[a].status = "online" /\ nodes[b].status = "online"
       /\ b \in Adj(a) /\ a \in Adj(b) /\ HasEdgeRecord(a, b)
       /\ nodes[c].status = "offline"
       /\ HasEdgeRecord(a, c) /\ c \notin Adj(a)

\* C13: simulateFailure(X) followed at once by simulateRecovery(X): every node
\* that was a neighbour of X before the failure and is online has X in its
\* connections again, and X has that node.
C13_FailThenRecoverReconnects ==
  \A X \in DOMAIN nodes :
    LET r == simulateRecovery(simulateFailure(Net, X), X)
    IN \A n \in DOMAIN nodes \ {X} :
         (n \in Adj(X) /\ X \in Adj(n) /\ r.nodes[n].status = "online")
           => (X \in AdjOf(r, n) /\ n \in AdjOf(r, X))

\* C14: in every state the six operations reach, no node's connections holds
\* the node's own id, and none holds an id twice.
C14_NoSelfLoopNoDuplicate ==
  \A n \in DOMAIN nodes :
    /\ n \notin Adj(n)
    /\ Cardinality(Adj(n)) = Len(nodes[n].connections)

\* C15: every Connection record of the edge list has active = TRUE exactly
\* when both its endpoints are in the node map and online.
C15_ActiveMirrorsOnline ==
  \A i \in 1..Len(connections) :
    connections[i].active
      <=> /\ connections[i].nodeA \in DOMAIN nodes
          /\ connections[i].nodeB \in DOMAIN nodes
          /\ nodes[connections[i].nodeA].status = "online"
          /\ nodes[connections[i].nodeB].status = "online"

\* C16: updateNodeStatus on a node of the map sets its status and refreshes
\* lastSeen only when the new status is online; for offline, busy and relay
\* lastSeen stays, and no other field and no other node changes.
C16_LastSeenOnlyOnOnline ==
  [][(lastOp'.op = "updateNodeStatus" /\ lastOp'.known /\ now' = now)
       => LET id == lastOp'.id
              s == nodes'[id].status
          IN /\ DOMAIN nodes' = DOMAIN nodes
             /\ nodeOrder' = nodeOrder
             /\ connections' = connections
             /\ \A n \in DOMAIN nodes \ {id} : nodes'[n] = nodes[n]
             /\ nodes'[id] = [nodes[id] EXCEPT !.status = s,
                                 !.lastSeen = IF s = "online" THEN now ELSE @]]_vars

\* C17: simulateFailure(id) leaves what updateNodeStatus(id, 'offline') then
\* healNetwork() leave, and simulateRecovery(id) leaves the status, lastSeen,
\* adjacency and edge list that updateNodeStatus(id, 'online') then
\* discoverConnections on that node leave.
C17_SimulateAsComposition ==
  \A id \in DOMAIN nodes :
    /\ simulateFailure(Net, id) = healNetwork(updateNodeStatus(Net, id, "offline"))
    /\ simulateRecovery(Net, id)
         = discoverConnections(updateNodeStatus(Net, id, "online"), id)
\* ------------------------------------------------- route planner, second group
\* C18: no routing call changes the node list it is given: status, battery,
\* signalStrength, position, connections, lastSeen and messageCount of every
\* node are the same after findRoute / findAllRoutes as before.
C18_RoutingLeavesTopology == [][topology' = topology]_vars

\* a findRoute call has gone through the ant colony and returned a route of two hops
C18_Witness ==
  /\ pc = "idle"
  /\ call.fn = "findRoute"
  /\ call.priority # "critical"
  /\ IsRoute(result)
  /\ Len(result.path) = 3

\* the pheromone keys a call on the node list ns reads: selectNextNode reads
\* the key of (current, neighbour) for the neighbours in current.connections,
\* depositPheromones the keys along a path the ants walked
ReadKeys(ns) ==
  UNION { { getEdgeKey(ns[i].id, nodeB) : nodeB \in Range(ns[i].connections) } :
          i \in 1..Len(ns) }

\* C19: a findOptimalPath call is independent of the calls the router served
\* before: with the same node list, source, destination, priority and random
\* draws it returns the same route on a fresh and on a used router.  The
\* router's only memory is the pheromone map, so this says that no pheromone
\* value the call reads is one an earlier call left.
C19_CallReadsNoStalePheromone ==
  pc = "aco" =>
    \A k \in ReadKeys(topology) : k \in DOMAIN pheromones /\ pheromones[k] # "stale"

\* a call is in its loop on a router that still holds a key of an earlier
\* call's node list, and the ants have already deposited on a key of this one
C19_Witness ==
  /\ pc = "aco"
  /\ iter > 0
  /\ \E k \in DOMAIN pheromones : pheromones[k] = "stale"
  /\ \E k \in DOMAIN pheromones : pheromones[k] = "updated"

\* r is what the claim lets the call return, given the routes its ants returned
BestOfFound(r) ==
  /\ (r = NoRoute) <=> (found = {})
  /\ IsRoute(r) => (r \in found /\ \A t \in found : r.cost <= t.cost)

\* C20: findOptimalPath returns null exactly when no traversal of the call
\* reached the destination; otherwise it returns one of the successful
\* traversals, of a cost no greater than that of any of them.
C20_BestOfSuccessful ==
  /\ pc = "aco" => BestOfFound(bestRoute)
  /\ (pc = "idle" /\ call.fn = "findRoute" /\ call.priority # "critical")
       => BestOfFound(result)

\* a call has returned after its ants came back with routes of two different costs
C20_Witness ==
  /\ pc = "idle"
  /\ call.fn = "findRoute"
  /\ call.priority # "critical"
  /\ IsRoute(result)
  /\ \E t \in found : t.cost > result.cost
\* ------------------------------------------------------ mesh core, third group
\* the nodes of the map within MAX_RANGE of the position (x, y)
InRange(x, y) ==
  { n \in DOMAIN nodes :
      calculateDistance([x |-> x, y |-> y], nodes[n]) <= MAX_RANGE }

\* C21: createNode returns a node that is online with battery 100,
\* signalStrength 100 and messageCount 0, whose adjacency is the
\* min(MAX_CONNECTIONS, k) nearest of the k other nodes within MAX_RANGE; each
\* of those has the new id appended to its connections, one Connection record
\* per new neighbour is appended, and no other node changes.
C21_CreateNodeResult ==
  [][(lastOp'.op = "createNode" /\ nextId' = nextId + 1)
       => LET id == nextId
              new == nodes'[id]
              near == InRange(new.x, new.y)
              S == Range(new.connections)
              dist(n) == calculateDistance(new, nodes[n])
          IN /\ id \notin DOMAIN nodes
             /\ DOMAIN nodes' = DOMAIN nodes \cup {id}
             /\ new.status = "online" /\ new.battery = 100
             /\ new.signalStrength = 100 /\ new.messageCount = 0
             /\ S \subseteq near
             /\ Cardinality(S) = Min(MAX_CONNECTIONS, Cardinality(near))
             /\ Len(new.connections) = Cardinality(S)
             /\ \A a \in S, b \in near \ S : dist(a) <= dist(b)
             /\ \A n \in S : nodes'[n] = [nodes[n] EXCEPT !.connections = Append(@, id)]
             /\ \A n \in DOMAIN nodes \ S : nodes'[n] = nodes[n]
             /\ Len(connections') = Len(connections) + Cardinality(S)
             /\ SubSeq(connections', 1, Len(connections)) = connections
             /\ \A n \in S :
                  Cardinality({ i \in (Len(connections) + 1)..Len(connections') :
                                  {connections'[i].nodeA, connections'[i].nodeB} = {id, n} }) = 1
     ]_vars

\* createNode has returned a node with MAX_CONNECTIONS neighbours while more
\* than MAX_CONNECTIONS other nodes, one of them offline, lie within MAX_RANGE
C21_Witness ==
  /\ lastOp.op = "createNode"
  /\ Len(nodes[lastOp.id].connections) = MAX_CONNECTIONS
  /\ Cardinality(InRange(nodes[lastOp.id].x, nodes[lastOp.id].y) \ {lastOp.id}) > MAX_CONNECTIONS
  /\ nodes[1].status = "offline"

\* C29: in every state the six operations reach, no node has more than
\* MAX_CONNECTIONS distinct neighbours in its connections.
C29_AtMostMaxConnections ==
  \A n \in DOMAIN nodes : Cardinality(Adj(n)) <= MAX_CONNECTIONS
\* ------------------------------------------------- route planner, third group
\* C22: findAllRoutes returns the deterministic candidate (when
\* findShortestPath finds one) followed by the stochastic candidate computed
\* under critical priority (when one is found), and nothing else; the
\* deterministic candidate has the path, cost, latency and reliability that
\* findShortestPath returns.
C22_AllRoutesCandidates ==
  (pc = "idle" /\ call.fn = "findAllRoutes") =>
    LET dijkstraRoute == findShortestPath(topology, call.source, call.destination)
        first == IF IsRoute(dijkstraRoute) THEN <<dijkstraRoute>> ELSE <<>>
    IN /\ call.priority = "critical"
       /\ Len(result) = Len(first) + (IF found = {} THEN 0 ELSE 1)
       /\ SubSeq(result, 1, Len(first)) = first
       /\ found # {} => result[Len(result)] \in found
\* ----------------------------------------------------- mesh core, fourth group
\* C23: right after healNetwork() returns, every id in every node's
\* connections names a node that is in the map and online, although the
\* discovery run for a later node of the pass may add entries to nodes that
\* were filtered before.
C23_HealLeavesOnlineNeighbours ==
  lastOp.op = "healNetwork" =>
    \A n \in DOMAIN nodes :
      \A c \in Adj(n) : c \in DOMAIN nodes /\ nodes[c].status = "online"

\* healNetwork has returned after the discovery of a later node pushed that
\* node's id onto an offline node that comes before it in the map
C23_Witness ==
  /\ lastOp.op = "healNetwork"
  /\ \E a \in DOMAIN nodes, b \in DOMAIN nodes :
       /\ a < b
       /\ nodes[a].status = "offline"
       /\ nodes[b].status = "online"
       /\ b \in Adj(a)
       /\ a \notin Adj(b)
       /\ Cardinality(EdgeRecords(connections, a, b)) > 1

\* C24: in every state the operations reach, the edge list holds at most one
\* Connection record per unordered pair of nodes.
C24_OneRecordPerPair ==
  \A i \in 1..Len(connections), j \in 1..Len(connections) :
    {connections[i].nodeA, connections[i].nodeB} = {connections[j].nodeA, connections[j].nodeB}
      => i = j
\* ------------------------------------------------ route planner, fourth group
\* C25: once findOptimalPath has run initializePheromones, the key set of the
\* pheromone map is exactly the set of unordered edges in the adjacency lists
\* of the nodes it was given, each at PHEROMONE_INITIAL, also after earlier
\* calls on a node list with edges that are gone.
C25_PheromoneKeysAreCurrentEdges ==
  (pc = "aco" /\ iter = 0) =>
    /\ DOMAIN pheromones = ReadKeys(topology)
    /\ \A k \in DOMAIN pheromones : pheromones[k] = "initial"

\* r is a simple path of the node list from the call's source to its
\* destination, every node after the first online
SimpleRoute(r) ==
  /\ r.path[1] = call.source
  /\ r.path[Len(r.path)] = call.destination
  /\ Cardinality(Range(r.path)) = Len(r.path)
  /\ Chained(r.path)
  /\ \A i \in 2..Len(r.path) : ROnline(r.path[i])

\* C26: every route an ant traversal produces, and so every route
\* findOptimalPath returns, is a simple path: it starts at the source, ends at
\* the destination, names no node twice, and every node after the first is in
\* the connections of the one before it and is online.
C26_AntRoutesSimple ==
  /\ \A r \in found : SimpleRoute(r)
  /\ IsRoute(bestRoute) => SimpleRoute(bestRoute)
  /\ (pc = "idle" /\ call.fn = "findRoute" /\ call.priority # "critical" /\ IsRoute(result))
       => SimpleRoute(result)

\* the ants have come back with a route of two hops on a node list whose first
\* node names node 2 twice and a missing node, and whose node 3 does not name
\* node 2 back
C26_Witness ==
  /\ \E r \in found : Len(r.path) = 3
  /\ Len(topology) = 3
  /\ topology[1].connections = <<2, 2, 4>>
  /\ 1 \notin Range(topology[2].connections)
  /\ 2 \notin Range(topology[3].connections)
\* ------------------------------------------------- simulator and ledger claims
SimConns(i) == Range(simNodes[i].connections)

\* C27: after NetworkSimulator.init, addNode and every tick, the simulator's
\* adjacency is symmetric: B's id is in A.connections if and only if A's id
\* is in B.connections.
C27_SimulatorSymmetric ==
  \A a \in 1..Len(simNodes), b \in 1..Len(simNodes) :
    simNodes[b].id \in SimConns(a) <=> simNodes[a].id \in SimConns(b)

\* C30: whatever the interleaving of the addMessage calls, once all of them
\* have completed the block indices are 0, 1, 2, ... and verifyChain() is true.
C30_ChainConsistentAfterCalls ==
  (\A p \in Calls : calls[p].pc = "done") =>
    /\ \A i \in 1..Len(chain) : chain[i].index = i - 1
    /\ verifyChain(chain)

\* a call is inside one of its loops
Running == loop # NoLoop \/ pc = "aco"

\* the ids of the node list that the ant has not been on
Unvisited(ns, path) == { ns[i].id : i \in 1..Len(ns) } \ Range(path)

\* an upper bound on the steps the call in progress has still to take
TurnsLeft ==
  IF pc = "aco" THEN ACO_ITERATIONS - iter + 1
  ELSE IF loop.at = "dijkstra" THEN Len(loop.st.unvisited) + Len(topology) + 4
  ELSE IF loop.at = "reconstruct" THEN Len(topology) + 2 - Len(loop.path)
  ELSE IF loop.at = "ant" THEN Cardinality(Unvisited(topology, loop.path)) + 1
  ELSE IF loop.at = "heal" THEN Len(loop.todo) + 1
  ELSE 0

\* C28: findRoute (both strategies) / findAllRoutes / healNetwork terminate on
\* every finite topology: every step of a call that is inside one of its loops
\* (Dijkstra's while and its path reconstruction, antTraverse's while,
\* findOptimalPath's for loop, healNetwork's forEach) takes the natural number
\* TurnsLeft strictly down, so no call takes a turn for ever
C28_EveryTurnCountsDown ==
  [][Running => (0 <= TurnsLeft' /\ TurnsLeft' < TurnsLeft)]_vars

\* an ant has walked 1 -> 2 -> 3 through a list with a duplicate entry, an entry
\* naming no node and a one-directional entry, and antTraverse has returned
C28_Witness ==
  /\ loop = NoLoop
  /\ call.fn = "antTraverse"
  /\ IsRoute(result)
  /\ result.path = <<1, 2, 3>>
  /\ topology[1].connections = <<2, 2, 4>>
  /\ topology[3].connections = <<>>

====
